---- MODULE Spec2Model ----
(***************************************************************************)
(* Simulation core of bevy-plane (src/main.rs, src/rocks.rs): the game     *)
(* state machine, the player physics, the rock spawner, rock lifecycle and *)
(* scoring, the collision scan and the scrolling backgrounds.              *)
(*                                                                         *)
(* Numbers are fixed point, all exact for the inputs drawn here:           *)
(*   x positions             pixels                                        *)
(*   y positions             1/200 pixel           (Y(px) = 200 * px)      *)
(*   player velocity         1/2 pixel per second  (BUMP = 292.5 -> 585)   *)
(*   time                    1/10 second                                   *)
(*   rock scale              percent                                       *)
(*   player rotation angle   PI / AngleDen radians                         *)
(***************************************************************************)
EXTENDS Integers, Sequences, FiniteSets, TLC

\* ------------------------------------------------------------ bounds
\* Frames (runs of the Update stage) explored.
MaxFrames == 2

\* Frame times the time source supplies, in 1/10 s: a short frame, one that
\* carries a fresh rock past the player (27 * 25 > 660) and one that carries
\* it past ROCK_MIN_X (40 * 25 > 968).
DtSet == {1, 27, 40}
\* Scales drawn from gen_range(0.7..1.2), in percent.
ScaleSet == {100}
\* Timer durations drawn from gen_range(0.4..1.5), in 1/10 s.
DurSet == {14}

\* The spawner on its own draws from wider sets: scales in steps of 0.1 and
\* every duration in steps of 0.1 s.
SpawnScaleSet == {70, 80, 90, 100, 110}
SpawnDurSet == 4..14

\* ------------------------------------------------------------ units
Y(px) == 200 * px
AngleDen == 2 * 33345

\* ------------------------------------------------------------ constants
WIDTH == 800
HEIGHT == 480
GRAVITY == 450
\* BUMP = GRAVITY * 0.65 = 292.5, in half pixels per second.
BUMP == (GRAVITY * 2 * 65) \div 100
PLAYER_WIDTH == 88
PLAYER_HEIGHT == 73
GROUND_WIDTH == 808
GROUND_HEIGHT == 73
\* FREE_FALL_VELOCITY = BUMP - GRAVITY * 1.6 = -427.5, in half pixels per second.
FREE_FALL_VELOCITY == BUMP - (GRAVITY * 2 * 16) \div 10
ROCK_WIDTH == 108
ROCK_HEIGHT == 239
ROCK_MIN_X == -(WIDTH \div 2) - ROCK_WIDTH
\* Transform::from_xyz(-200.0, 0.0, 1.0): the player's fixed x.
PLAYER_X == -200
\* Transform::from_xyz(WIDTH / 2.0 + 60.0, ..): where rocks appear.
ROCK_SPAWN_X == WIDTH \div 2 + 60
\* HorizontalVelocity(250.0) of every rock, pixels per second.
ROCK_VELOCITY == 250
\* GameSpeed(1.0).
GAME_SPEED == 1
\* The margin handed to query::proximity, in pixels.
PROXIMITY_MARGIN == 1

GameState == {"Start", "Playing", "Paused", "GameOver"}
Proximity == {"Intersecting", "WithinMargin", "Disjoint"}

ROCK_UP_POINTS ==
    << <<-(ROCK_WIDTH \div 2) + 6, -(Y(ROCK_HEIGHT) \div 2)>>,
       <<ROCK_WIDTH \div 2 - 6, -(Y(ROCK_HEIGHT) \div 2)>>,
       <<12, Y(ROCK_HEIGHT) \div 2>> >>

ROCK_DOWN_POINTS ==
    << <<12, -(Y(ROCK_HEIGHT) \div 2)>>,
       <<-(ROCK_WIDTH \div 2) + 6, Y(ROCK_HEIGHT) \div 2>>,
       <<ROCK_WIDTH \div 2 - 6, Y(ROCK_HEIGHT) \div 2>> >>

\* ------------------------------------------------------------ state
VARIABLES
    state,        \* State<GameState>: current, transition, scheduled, end_next_loop
    prep_exit,    \* the state driver's Local<bool>
    buttons,      \* Input<MouseButton>, the Left button: just_pressed
    time_delta,   \* Time::delta of this frame
    rock_timer,   \* RockTimer: elapsed, duration, finished
    score,        \* Score.0
    score_changed,\* Score's change tick is newer than rock_system's last run
    player,       \* the Player entity: velocity, y, rotation
    rocks,        \* the live Rock entities, in query order
    backgrounds,  \* x of the six Background entities
    banners,      \* the live RemoveAfterState entities
    commands,     \* the deferred Commands of the systems of this pass
    next_entity,  \* the next fresh entity id
    pc,           \* where the stage is: "frame", "driver", "systems"
    todo,         \* the systems whose run criteria said yes in this pass
    ran,          \* those of them that already ran
    panicked,     \* an unwrap() of a StateError ended the app
    frames,       \* frames begun so far
    obs           \* what happened in this frame and pass (history only)

vars == <<state, prep_exit, buttons, time_delta, rock_timer, score, score_changed,
          player, rocks, backgrounds, banners, commands, next_entity, pc, todo,
          ran, panicked, frames, obs>>

NoTransition == [kind |-> "None", from |-> "-", to |-> "-"]
NoCommands == [spawn |-> <<>>, despawn |-> {}, banner_spawn |-> {}, banner_despawn |-> {}]

Range(s) == {s[i] : i \in DOMAIN s}
RockIds == {r.id : r \in Range(rocks)}

\* ------------------------------------------------------------ setup
\* spawn_background: two segments, at x and x + width.
spawn_background(x, width, velocity) ==
    << [x |-> 0 * width + x, width |-> width, velocity |-> velocity],
       [x |-> 1 * width + x, width |-> width, velocity |-> velocity] >>

\* setup: the three background layers and the player.
setup ==
    [backgrounds |-> spawn_background(0, WIDTH, 150)
                     \o spawn_background(0, GROUND_WIDTH, 300)
                     \o spawn_background(-132, GROUND_WIDTH, 300),
     player |-> [velocity |-> BUMP, x |-> PLAYER_X, y |-> 0, rotation |-> 0]]

\* What happened in the frame so far: a press event arrived (click),
\* wait_for_click used it for a transition (consumed), player_system saw a
\* press (flapped), and what the proximity queries of collision_system
\* answered (intersecting, within_margin) with its state.set calls (set_calls);
\* and the first entity id that was free when the current pass began
\* (first_new): the entities of this pass have ids from it on.
InitObs ==
    [click |-> FALSE, consumed |-> FALSE, flapped |-> FALSE,
     intersecting |-> FALSE, within_margin |-> FALSE, set_calls |-> 0,
     first_new |-> 1]

Init ==
    /\ state = [current |-> "Start",
                transition |-> [kind |-> "PreStartup", from |-> "-", to |-> "-"],
                scheduled |-> "None", end_next_loop |-> FALSE]
    /\ prep_exit = FALSE
    /\ buttons = [just_pressed |-> FALSE]
    /\ time_delta = 0
    /\ rock_timer = [elapsed |-> 0, duration |-> 0, finished |-> FALSE]
    /\ score = 0
    /\ score_changed = TRUE
    /\ player = setup.player
    /\ rocks = <<>>
    /\ backgrounds = setup.backgrounds
    /\ banners = {}
    /\ commands = NoCommands
    /\ next_entity = 1
    /\ pc = "frame"
    /\ todo = {}
    /\ ran = {}
    /\ panicked = FALSE
    /\ frames = 0
    /\ obs = InitObs

\* ------------------------------------------------------------ the state driver
\* State::set: refused when already in the state or when a change is queued.
State_set(st, next) ==
    IF st.current = next THEN [ok |-> FALSE, state |-> st]
    ELSE IF st.scheduled # "None" THEN [ok |-> FALSE, state |-> st]
    ELSE [ok |-> TRUE, state |-> [st EXCEPT !.scheduled = next]]

\* The driver run criterion that add_state installs, evaluated before each
\* pass of the stage loop: it turns a scheduled change into ExitingFull, then
\* Entering, then the plain update of the new state, and ends the loop once
\* an update pass scheduled nothing.
state_cleaner(st, pe) ==
    IF pe /\ st.scheduled = "None"
    THEN [state |-> [st EXCEPT !.end_next_loop = TRUE], prep_exit |-> FALSE, run |-> TRUE]
    ELSE IF ~pe /\ st.end_next_loop
    THEN [state |-> [st EXCEPT !.end_next_loop = FALSE], prep_exit |-> FALSE, run |-> FALSE]
    ELSE
      LET st2 ==
            IF st.scheduled # "None"
            THEN [st EXCEPT !.scheduled = "None",
                            !.transition = [kind |-> "ExitingFull", from |-> st.current,
                                            to |-> st.scheduled]]
            ELSE IF st.transition.kind = "ExitingFull"
            THEN [st EXCEPT !.transition = [kind |-> "Entering", from |-> st.transition.from,
                                            to |-> st.transition.to],
                            !.current = st.transition.to]
            ELSE IF st.transition.kind = "PreStartup"
            THEN [st EXCEPT !.transition = [kind |-> "Startup", from |-> "-", to |-> "-"]]
            ELSE [st EXCEPT !.transition = NoTransition]
      IN [state |-> st2, prep_exit |-> (st2.transition.kind = "None"), run |-> TRUE]

\* The system sets registered in main, by the run criteria on_enter, on_update
\* and on_exit of each state.
PlayingSystems ==
    {"rock_spawn_system", "loop_background", "horizontal_movement",
     "player_system", "rock_system", "collision_system"}

\* A variant of the registration that runs reset_game on the update of
\* GameOver instead of on its exit.
on_update_with_reset(s) ==
    IF s = "Start" THEN {"wait_for_click"}
    ELSE IF s = "Playing" THEN PlayingSystems
    ELSE IF s = "GameOver" THEN {"wait_for_click", "reset_game"}
    ELSE {}

\* A variant of the registration in which the scrolling systems run in every
\* state.
on_update_scrolling_always(s) ==
    IF s = "Start" THEN {"wait_for_click", "horizontal_movement", "loop_background"}
    ELSE IF s = "Playing" THEN PlayingSystems
    ELSE IF s = "GameOver" THEN {"wait_for_click", "horizontal_movement", "loop_background"}
    ELSE {}

on_update(s) ==
    IF s = "Start" THEN {"wait_for_click"}
    ELSE IF s = "Playing" THEN PlayingSystems
    ELSE IF s = "GameOver" THEN {"wait_for_click"}
    ELSE {}

on_enter(s) ==
    IF s = "Start" THEN {"setup_start"}
    ELSE IF s = "GameOver" THEN {"setup_game_over"}
    ELSE {}

\* A variant of the registration that leaves reset_game out.
on_exit_cleanup_only(s) ==
    IF s = "Start" THEN {"state_cleanup_system"}
    ELSE IF s = "GameOver" THEN {"state_cleanup_system"}
    ELSE {}

on_exit(s) ==
    IF s = "Start" THEN {"state_cleanup_system"}
    ELSE IF s = "GameOver" THEN {"reset_game", "state_cleanup_system"}
    ELSE {}

\* The systems that run in the pass that follows a driver evaluation.
SystemsOfPass(st) ==
    IF st.end_next_loop THEN {}
    ELSE IF st.transition.kind = "None" THEN on_update(st.current)
    ELSE IF st.transition.kind = "Startup" THEN on_enter(st.current)
    ELSE IF st.transition.kind = "Entering" THEN on_enter(st.transition.to)
    ELSE IF st.transition.kind = "ExitingFull" THEN on_exit(st.transition.from)
    ELSE {}

Runnable(sys) == pc = "systems" /\ ~panicked /\ sys \in todo /\ sys \notin ran

\* ------------------------------------------------------------ the frame
\* A frame begins: the input system clears just_pressed and records a press
\* event of this frame, the time source gives the frame time.
BeginFrame ==
    /\ pc = "frame"
    /\ ~panicked
    /\ frames < MaxFrames
    /\ \E click \in BOOLEAN, dt \in DtSet :
          /\ buttons' = [just_pressed |-> click]
          /\ time_delta' = dt
          /\ obs' = [InitObs EXCEPT !.click = click, !.first_new = next_entity]
    /\ frames' = frames + 1
    /\ pc' = "driver"
    /\ UNCHANGED <<state, prep_exit, rock_timer, score, score_changed, player, rocks,
                   backgrounds, banners, commands, next_entity, todo, ran, panicked>>

\* One evaluation of the run criteria of the stage loop.
StageLoop ==
    /\ pc = "driver"
    /\ ~panicked
    /\ LET d == state_cleaner(state, prep_exit) IN
          /\ state' = d.state
          /\ prep_exit' = d.prep_exit
          /\ IF d.run
             THEN /\ pc' = "systems"
                  /\ todo' = SystemsOfPass(d.state)
             ELSE /\ pc' = "frame"
                  /\ todo' = {}
    /\ ran' = {}
    /\ obs' = [obs EXCEPT !.first_new = next_entity]
    /\ UNCHANGED <<buttons, time_delta, rock_timer, score, score_changed, player, rocks,
                   backgrounds, banners, commands, next_entity, panicked, frames>>

\* The end of a pass: the commands of the systems that ran are applied.
ApplyBuffers ==
    /\ pc = "systems"
    /\ ~panicked
    /\ ran = todo
    /\ rocks' = SelectSeq(rocks, LAMBDA r : r.id \notin commands.despawn) \o commands.spawn
    /\ banners' = (banners \ commands.banner_despawn) \cup commands.banner_spawn
    /\ commands' = NoCommands
    /\ pc' = "driver"
    /\ UNCHANGED <<state, prep_exit, buttons, time_delta, rock_timer, score, score_changed,
                   player, backgrounds, next_entity, todo, ran, panicked, frames, obs>>

\* ------------------------------------------------------------ Start and GameOver
setup_start ==
    /\ Runnable("setup_start")
    /\ commands' = [commands EXCEPT !.banner_spawn = @ \cup {"textGetReady", "tapLeft", "tapRight"}]
    /\ ran' = ran \cup {"setup_start"}
    /\ UNCHANGED <<state, prep_exit, buttons, time_delta, rock_timer, score, score_changed,
                   player, rocks, backgrounds, banners, next_entity, pc, todo, panicked,
                   frames, obs>>

setup_game_over ==
    /\ Runnable("setup_game_over")
    /\ commands' = [commands EXCEPT !.banner_spawn = @ \cup {"textGameOver"}]
    /\ ran' = ran \cup {"setup_game_over"}
    /\ UNCHANGED <<state, prep_exit, buttons, time_delta, rock_timer, score, score_changed,
                   player, rocks, backgrounds, banners, next_entity, pc, todo, panicked,
                   frames, obs>>

state_cleanup_system ==
    /\ Runnable("state_cleanup_system")
    /\ commands' = [commands EXCEPT !.banner_despawn = @ \cup banners]
    /\ ran' = ran \cup {"state_cleanup_system"}
    /\ UNCHANGED <<state, prep_exit, buttons, time_delta, rock_timer, score, score_changed,
                   player, rocks, backgrounds, banners, next_entity, pc, todo, panicked,
                   frames, obs>>

\* A variant of the match in wait_for_click without its GameOver arm.
next_state_always_playing(current) == "Playing"

\* The state a click leads to.
next_state(current) == IF current = "GameOver" THEN "Start" ELSE "Playing"

\* A variant of the reset that leaves the press in place.
Input_reset_skipped(b) == b

\* buttons.reset(MouseButton::Left): the click is no longer "just pressed".
Input_reset(b) == [b EXCEPT !.just_pressed = FALSE]

wait_for_click ==
    /\ Runnable("wait_for_click")
    /\ IF buttons.just_pressed
       THEN LET r == State_set(state, next_state(state.current)) IN
            IF r.ok
            THEN /\ state' = r.state
                 /\ buttons' = Input_reset(buttons)
                 /\ obs' = [obs EXCEPT !.consumed = TRUE]
                 /\ UNCHANGED panicked
            ELSE /\ panicked' = TRUE
                 /\ UNCHANGED <<state, buttons, obs>>
       ELSE UNCHANGED <<state, buttons, obs, panicked>>
    /\ ran' = ran \cup {"wait_for_click"}
    /\ UNCHANGED <<prep_exit, time_delta, rock_timer, score, score_changed, player, rocks,
                   backgrounds, banners, commands, next_entity, pc, todo, frames>>

\* reset_game, on leaving GameOver.
Timer_reset(t) == [t EXCEPT !.elapsed = 0, !.finished = FALSE]

reset_game ==
    /\ Runnable("reset_game")
    /\ rock_timer' = Timer_reset(rock_timer)
    /\ player' = [player EXCEPT !.y = 0, !.rotation = 0, !.velocity = BUMP]
    /\ commands' = [commands EXCEPT !.despawn = @ \cup RockIds]
    /\ score' = 0
    /\ score_changed' = TRUE
    /\ ran' = ran \cup {"reset_game"}
    /\ UNCHANGED <<state, prep_exit, buttons, time_delta, rocks, backgrounds, banners,
                   next_entity, pc, todo, panicked, frames, obs>>

\* ------------------------------------------------------------ the spawner
\* A variant of the tick that reports the timer finished as soon as any time
\* has elapsed, whatever its duration.
Timer_tick_ignores_duration(t, dt) ==
    IF t.finished THEN t
    ELSE LET e == t.elapsed + dt IN
         IF e > 0
         THEN [t EXCEPT !.elapsed = t.duration, !.finished = TRUE]
         ELSE [t EXCEPT !.elapsed = e]

\* Timer::tick of a non-repeating timer: the elapsed time stops at the duration.
Timer_tick(t, dt) ==
    IF t.finished THEN t
    ELSE LET e == t.elapsed + dt IN
         IF e >= t.duration
         THEN [t EXCEPT !.elapsed = t.duration, !.finished = TRUE]
         ELSE [t EXCEPT !.elapsed = e]

Timer_set_duration(t, d) == [t EXCEPT !.duration = d]

\* A variant of the scale rule that keeps the drawn scale for every layout.
spawn_scale_unchanged(scale, rock_type) == scale

\* The scale of a spawn: the 'both' layout shrinks it by 0.7.
spawn_scale(scale, rock_type) == IF rock_type = 2 THEN (scale * 7) \div 10 ELSE scale

\* The template points with y scaled, x kept.
add_collision_polygon(coords, scale) ==
    [i \in DOMAIN coords |-> <<coords[i][1], (coords[i][2] * scale) \div 100>>]

\* (y, texture, points) of the rocks of one spawn.
rock_descriptions(scale, rock_type) ==
    (IF rock_type # 0
     THEN << [y |-> -(Y(HEIGHT) \div 2) + ((Y(ROCK_HEIGHT) * scale) \div 100) \div 2,
              texture |-> "rockGrass.png", points |-> ROCK_UP_POINTS] >>
     ELSE <<>>)
    \o
    (IF rock_type # 1
     THEN << [y |-> Y(HEIGHT) \div 2 - ((Y(ROCK_HEIGHT) * scale) \div 100) \div 2,
              texture |-> "rockDown.png", points |-> ROCK_DOWN_POINTS] >>
     ELSE <<>>)

\* The entities spawn_rocks creates, with fresh ids from first_id on. batch is
\* history only: the id of the first rock of the same spawn.
spawn_rocks(scale, rock_type, first_id) ==
    LET s == spawn_scale(scale, rock_type)
        ds == rock_descriptions(s, rock_type)
    IN [i \in DOMAIN ds |->
          [id |-> first_id + i - 1, batch |-> first_id,
           x |-> ROCK_SPAWN_X, y |-> ds[i].y, scale |-> s, texture |-> ds[i].texture,
           polygon |-> add_collision_polygon(ds[i].points, s),
           velocity |-> ROCK_VELOCITY, has_scored |-> FALSE]]

\* A variant of the spawner whose rocks are live at once instead of at the
\* end of the pass.
rock_spawn_immediate(scales, durations) ==
    /\ Runnable("rock_spawn_system")
    /\ LET t == Timer_tick(rock_timer, time_delta) IN
         \/ /\ t.finished
            /\ \E scale \in scales, rock_type \in 0..2, next_time \in durations :
                 LET new == spawn_rocks(scale, rock_type, next_entity) IN
                   /\ rocks' = rocks \o new
                   /\ next_entity' = next_entity + Len(new)
                   /\ rock_timer' = Timer_reset(Timer_set_duration(t, next_time))
         \/ /\ ~t.finished
            /\ rock_timer' = t
            /\ UNCHANGED <<rocks, next_entity>>
    /\ ran' = ran \cup {"rock_spawn_system"}
    /\ UNCHANGED <<state, prep_exit, buttons, time_delta, score, score_changed, player,
                   commands, backgrounds, banners, pc, todo, panicked, frames, obs>>

\* rock_spawn_system with the values the random generator may give.
rock_spawn(scales, durations) ==
    /\ Runnable("rock_spawn_system")
    /\ LET t == Timer_tick(rock_timer, time_delta) IN
         \/ /\ t.finished
            /\ \E scale \in scales, rock_type \in 0..2, next_time \in durations :
                 LET new == spawn_rocks(scale, rock_type, next_entity) IN
                   /\ commands' = [commands EXCEPT !.spawn = @ \o new]
                   /\ next_entity' = next_entity + Len(new)
                   /\ rock_timer' = Timer_reset(Timer_set_duration(t, next_time))
         \/ /\ ~t.finished
            /\ rock_timer' = t
            /\ UNCHANGED <<commands, next_entity>>
    /\ ran' = ran \cup {"rock_spawn_system"}
    /\ UNCHANGED <<state, prep_exit, buttons, time_delta, score, score_changed, player, rocks,
                   backgrounds, banners, pc, todo, panicked, frames, obs>>

rock_spawn_system == rock_spawn(ScaleSet, DurSet)

\* ------------------------------------------------------------ scrolling
\* translation.x -= dt * speed * velocity
scroll(x, velocity, dt) == x - (dt * GAME_SPEED * velocity) \div 10

horizontal_movement ==
    /\ Runnable("horizontal_movement")
    /\ rocks' = [i \in DOMAIN rocks |->
                    [rocks[i] EXCEPT !.x = scroll(@, rocks[i].velocity, time_delta)]]
    /\ backgrounds' = [i \in DOMAIN backgrounds |->
                    [backgrounds[i] EXCEPT !.x = scroll(@, backgrounds[i].velocity, time_delta)]]
    /\ ran' = ran \cup {"horizontal_movement"}
    /\ UNCHANGED <<state, prep_exit, buttons, time_delta, rock_timer, score, score_changed,
                   player, banners, commands, next_entity, pc, todo, panicked, frames, obs>>

\* A variant of the wrap that moves the segment by one width only.
wrap_one_width(x, width) == IF x < -width THEN x + width ELSE x

\* A segment that left the screen on the left is moved two widths to the right.
wrap(x, width) == IF x < -width THEN x + width * 2 ELSE x

loop_background ==
    /\ Runnable("loop_background")
    /\ backgrounds' = [i \in DOMAIN backgrounds |->
                    [backgrounds[i] EXCEPT !.x = wrap(@, backgrounds[i].width)]]
    /\ ran' = ran \cup {"loop_background"}
    /\ UNCHANGED <<state, prep_exit, buttons, time_delta, rock_timer, score, score_changed,
                   player, rocks, banners, commands, next_entity, pc, todo, panicked,
                   frames, obs>>

\* ------------------------------------------------------------ the player
\* A variant of the flap that adds the impulse to the velocity.
flap_additive(velocity) == velocity + BUMP

\* The velocity a flap leaves.
flap(velocity) == BUMP

\* The angle of the sprite for a velocity, in PI / AngleDen.
orientation(velocity) ==
    IF velocity >= 0
    THEN (velocity * (AngleDen \div 6)) \div BUMP
    ELSE IF velocity > FREE_FALL_VELOCITY
    THEN AngleDen * 2 - ((-velocity) * (AngleDen \div 2)) \div (-FREE_FALL_VELOCITY)
    ELSE (AngleDen * 3) \div 2

\* A variant of the gravity step with the sign turned round.
integrate_velocity_upward(velocity, dt) == velocity + (GRAVITY * 2 * dt) \div 10

\* velocity -= GRAVITY * dt
integrate_velocity(velocity, dt) == velocity - (GRAVITY * 2 * dt) \div 10

\* A variant of the position update that uses the velocity after gravity.
integrate_y_after_gravity(y, velocity, dt) ==
    y + integrate_velocity(velocity, dt) * dt * (Y(1) \div 20)

\* translation.y += velocity * dt
integrate_y(y, velocity, dt) == y + velocity * dt * (Y(1) \div 20)

player_system ==
    /\ Runnable("player_system")
    /\ LET v == IF buttons.just_pressed THEN flap(player.velocity) ELSE player.velocity IN
         player' = [player EXCEPT !.rotation = orientation(v),
                                  !.y = integrate_y(@, v, time_delta),
                                  !.velocity = integrate_velocity(v, time_delta)]
    /\ obs' = [obs EXCEPT !.flapped = buttons.just_pressed]
    /\ ran' = ran \cup {"player_system"}
    /\ UNCHANGED <<state, prep_exit, buttons, time_delta, rock_timer, score, score_changed,
                   rocks, backgrounds, banners, commands, next_entity, pc, todo, panicked,
                   frames>>

\* ------------------------------------------------------------ rock lifecycle and scoring
\* A variant of the threshold test with the comparison turned round.
is_off_screen_reversed(x) == x > ROCK_MIN_X

\* The rock is off the left edge by the safety margin.
is_off_screen(x) == x < ROCK_MIN_X

\* The rock is behind the player and has not counted yet.
has_passed(rock, player_x) == ~rock.has_scored /\ rock.x < player_x

\* A variant of the guard that counts every rock that passed.
scores_point_each(passed, is_changed) == passed

\* if !score.is_changed(): a rock that passed counts only while the score
\* has not changed since rock_system last ran.
scores_point(passed, is_changed) == passed /\ ~is_changed

\* The loop of rock_system from rock i on. acc carries the rocks visited so
\* far, the score, score.is_changed() and the despawn commands.
RECURSIVE rock_loop(_, _, _, _)
rock_loop(rs, i, player_x, acc) ==
    IF i > Len(rs) THEN acc
    ELSE LET rock == rs[i]
             passed == has_passed(rock, player_x)
             counts == scores_point(passed, acc.is_changed)
         IN rock_loop(rs, i + 1, player_x,
              [rocks |-> Append(acc.rocks,
                                IF passed THEN [rock EXCEPT !.has_scored = TRUE] ELSE rock),
               score |-> IF counts THEN acc.score + 1 ELSE acc.score,
               is_changed |-> acc.is_changed \/ counts,
               despawn |-> IF is_off_screen(rock.x)
                           THEN acc.despawn \cup {rock.id} ELSE acc.despawn])

rock_system ==
    /\ Runnable("rock_system")
    /\ LET out == rock_loop(rocks, 1, player.x,
                            [rocks |-> <<>>, score |-> score, is_changed |-> score_changed,
                             despawn |-> {}])
       IN /\ rocks' = out.rocks
          /\ score' = out.score
          /\ commands' = [commands EXCEPT !.despawn = @ \cup out.despawn]
    \* The system's last change tick is now this run's: nothing it wrote is
    \* newer than it.
    /\ score_changed' = FALSE
    /\ ran' = ran \cup {"rock_system"}
    /\ UNCHANGED <<state, prep_exit, buttons, time_delta, rock_timer, player, backgrounds,
                   banners, next_entity, pc, todo, panicked, frames, obs>>

\* ------------------------------------------------------------ collision
Abs(n) == IF n < 0 THEN -n ELSE n

\* The half extents of the player's Cuboid, in 1/200 pixel.
player_shape == [hx |-> Y(PLAYER_WIDTH) \div 4, hy |-> Y(PLAYER_HEIGHT) \div 4]

\* z of the cross product (b - a) x (p - a); x in pixels, y in 1/200 pixel.
Cross(a, b, p) == (b[1] - a[1]) * (p[2] - a[2]) - (b[2] - a[2]) * (p[1] - a[1])

\* The point lies strictly inside the triangle placed at (x, y).
InsidePolygon(px, py, x, y, polygon) ==
    LET w == [i \in DOMAIN polygon |-> <<x + polygon[i][1], y + polygon[i][2]>>]
        c1 == Cross(w[1], w[2], <<px, py>>)
        c2 == Cross(w[2], w[3], <<px, py>>)
        c3 == Cross(w[3], w[1], <<px, py>>)
    IN (c1 > 0 /\ c2 > 0 /\ c3 > 0) \/ (c1 < 0 /\ c2 < 0 /\ c3 < 0)

\* What query::proximity can answer for the rock's polygon at the rock's
\* translation and the player's cuboid, turned by the player's angle, with
\* margin 1.0. The geometry kernel is ncollide2d's; here its answer is bounded
\* from both sides: Disjoint when the boxes around the two shapes are further
\* apart than the margin on one axis (the turned cuboid lies within hx + hy of
\* its centre), Intersecting when the cuboid's centre is inside the polygon,
\* and any of the three otherwise.
proximity(rock, pl) ==
    LET reach == player_shape.hx + player_shape.hy
        half_w == Y(ROCK_WIDTH \div 2 - 6)
        half_h == Abs(rock.polygon[1][2])
        gap_x == Y(Abs(rock.x - pl.x)) - half_w - reach
        gap_y == Abs(rock.y - pl.y) - half_h - reach
    IN IF gap_x > Y(PROXIMITY_MARGIN) \/ gap_y > Y(PROXIMITY_MARGIN) THEN {"Disjoint"}
       ELSE IF InsidePolygon(pl.x, pl.y, rock.x, rock.y, rock.polygon) THEN {"Intersecting"}
       ELSE Proximity

\* A variant of the match that also accepts WithinMargin.
is_rock_collision_near(p) == p # "Disjoint"

\* match p { Proximity::Intersecting => true, _ => false }
is_rock_collision(p) == p = "Intersecting"

\* The scan of collision_system from rock i on, which returns at the first
\* hit: the State after it, the number of state.set calls and whether an
\* unwrap() failed.
RECURSIVE collision_loop(_, _, _, _)
collision_loop(rs, i, answers, acc) ==
    IF i > Len(rs) \/ acc.panicked THEN acc
    ELSE IF is_rock_collision(answers[rs[i].id])
    THEN LET r == State_set(acc.state, "GameOver")
         IN [state |-> r.state, set_calls |-> acc.set_calls + 1, panicked |-> ~r.ok]
    ELSE collision_loop(rs, i + 1, answers, acc)

collision_system ==
    /\ Runnable("collision_system")
    /\ \E answers \in [RockIds -> Proximity] :
         /\ \A i \in DOMAIN rocks : answers[rocks[i].id] \in proximity(rocks[i], player)
         /\ LET out == collision_loop(rocks, 1, answers,
                                      [state |-> state, set_calls |-> 0, panicked |-> FALSE])
            IN /\ state' = out.state
               /\ panicked' = out.panicked
               /\ obs' = [obs EXCEPT
                       !.intersecting = \E id \in RockIds : answers[id] = "Intersecting",
                       !.within_margin = \E id \in RockIds : answers[id] = "WithinMargin",
                       !.set_calls = out.set_calls]
    /\ ran' = ran \cup {"collision_system"}
    /\ UNCHANGED <<prep_exit, buttons, time_delta, rock_timer, score, score_changed, player,
                   rocks, backgrounds, banners, commands, next_entity, pc, todo, frames>>

\* ------------------------------------------------------------ specification
Next ==
    \/ BeginFrame
    \/ StageLoop
    \/ ApplyBuffers
    \/ setup_start
    \/ setup_game_over
    \/ state_cleanup_system
    \/ wait_for_click
    \/ reset_game
    \/ rock_spawn_system
    \/ horizontal_movement
    \/ loop_background
    \/ player_system
    \/ rock_system
    \/ collision_system

Spec == Init /\ [][Next]_vars

\* ------------------------------------------------------------ the spawner alone
\* The first Playing update, as the click of the first frame leaves it, with
\* the spawner drawing from the wider sets.
SpawnInit ==
    /\ state = [current |-> "Playing", transition |-> NoTransition,
                scheduled |-> "None", end_next_loop |-> FALSE]
    /\ prep_exit = TRUE
    /\ buttons = [just_pressed |-> FALSE]
    /\ time_delta \in DtSet
    /\ rock_timer = [elapsed |-> 0, duration |-> 0, finished |-> FALSE]
    /\ score = 0
    /\ score_changed = TRUE
    /\ player = setup.player
    /\ rocks = <<>>
    /\ backgrounds = setup.backgrounds
    /\ banners = {}
    /\ commands = NoCommands
    /\ next_entity = 1
    /\ pc = "systems"
    /\ todo = PlayingSystems
    /\ ran = {}
    /\ panicked = FALSE
    /\ frames = 1
    /\ obs = [InitObs EXCEPT !.click = TRUE, !.consumed = TRUE]

SpawnDraw == rock_spawn(SpawnScaleSet, SpawnDurSet)

SpawnNext == SpawnDraw

SpawnSpec == SpawnInit /\ [][SpawnNext]_vars

\* ------------------------------------------------------------ properties
\* The step is a run of the system sys.
Step(sys) == sys \notin ran /\ sys \in ran'

\* C1: the game starts in Start and is never in Paused, and every change of
\* the current state is Start -> Playing in a frame with a click, Playing ->
\* GameOver in a frame in which collision_system got an Intersecting answer,
\* or GameOver -> Start in a frame with a click; no other edge occurs.
C1_Edge ==
    state'.current # state.current =>
        \/ state.current = "Start" /\ state'.current = "Playing" /\ obs.click
        \/ state.current = "Playing" /\ state'.current = "GameOver" /\ obs.intersecting
        \/ state.current = "GameOver" /\ state'.current = "Start" /\ obs.click

C1_DefinedEdgesOnly ==
    /\ state.current = "Start"
    /\ [][C1_Edge /\ state'.current # "Paused"]_vars

\* All three edges were taken: the click of this frame led from GameOver back
\* to Start after the collision of this frame.
C1_Witness ==
    /\ state.current = "Start"
    /\ state.transition.from = "GameOver"
    /\ obs.click
    /\ obs.intersecting

\* C2: once GameOver was left for Start and Start is entered, the reset is in
\* effect: the score is 0, the player's velocity is BUMP, its y is 0, its
\* rotation is the identity, the spawn timer has elapsed 0 and no rock is live.
C2_ResetApplied ==
    (state.transition.kind = "Entering" /\ state.transition.from = "GameOver") =>
        /\ state.current = "Start"
        /\ score = 0
        /\ player.velocity = BUMP
        /\ player.y = 0
        /\ player.rotation = 0
        /\ rock_timer.elapsed = 0
        /\ rocks = <<>>

\* Start is entered from GameOver in a game that had spawned rocks.
C2_Witness ==
    /\ state.transition.kind = "Entering"
    /\ state.transition.from = "GameOver"
    /\ next_entity > 1
    /\ rocks = <<>>
    /\ score = 0

\* C3: when rock_system runs while Score has not changed since its last run
\* and two unscored rocks of one 'both' spawn are behind the player's x, the
\* run raises Score by exactly 1 and marks both rocks as scored.
C3_PairScoresOnce ==
    [][(Step("rock_system") /\ ~score_changed) =>
         \A i, j \in DOMAIN rocks :
            ( /\ i # j
              /\ rocks[i].batch = rocks[j].batch
              /\ ~rocks[i].has_scored /\ ~rocks[j].has_scored
              /\ rocks[i].x < player.x /\ rocks[j].x < player.x )
            => /\ score' = score + 1
               /\ rocks'[i].has_scored
               /\ rocks'[j].has_scored]_vars

\* rock_system ran with both rocks of a pair behind the player: one point.
C3_Witness ==
    /\ "rock_system" \in ran
    /\ score = 1
    /\ \E i, j \in DOMAIN rocks :
          /\ i # j
          /\ rocks[i].batch = rocks[j].batch
          /\ rocks[i].has_scored /\ rocks[j].has_scored
          /\ rocks[i].x < player.x /\ rocks[j].x < player.x

\* C4: a run of collision_system schedules GameOver exactly when the
\* proximity answer for some live rock is Intersecting; with only WithinMargin
\* and Disjoint answers it schedules nothing; and it calls state.set once on a
\* hit, never more, and the call succeeds.
C4_OnlyIntersectingEndsGame ==
    [][Step("collision_system") =>
         /\ (state'.scheduled = "GameOver") <=> obs'.intersecting
         /\ ~obs'.intersecting => state' = state
         /\ obs'.set_calls = (IF obs'.intersecting THEN 1 ELSE 0)
         /\ ~panicked']_vars

\* collision_system got an Intersecting answer and scheduled GameOver once.
C4_Witness ==
    /\ "collision_system" \in ran
    /\ obs.intersecting
    /\ obs.set_calls = 1
    /\ state.current = "Playing"
    /\ state.scheduled = "GameOver"

\* C5: a run of player_system that sees a press leaves the velocity
\* BUMP - GRAVITY * dt and moves y by BUMP * dt, whatever the velocity was.
C5_FlapOverwrites ==
    [][(Step("player_system") /\ buttons.just_pressed) =>
         /\ player'.velocity = BUMP - (GRAVITY * 2 * time_delta) \div 10
         /\ player'.y - player.y = BUMP * time_delta * 10]_vars

\* player_system flapped in the second frame, where the velocity before it
\* was below BUMP.
C5_Witness ==
    /\ "player_system" \in ran
    /\ obs.flapped
    /\ frames = 2
    /\ player.velocity = BUMP - (GRAVITY * 2 * time_delta) \div 10

\* C6: a run of player_system with dt > 0 that sees no press moves y by
\* v * dt for the velocity v before the run and lowers the velocity by
\* GRAVITY * dt; from v = BUMP with dt = 0.1 the velocity becomes 247.5 (495
\* half pixels per second) and y rises by 29.25 (5850 / 200).
C6_ExplicitEuler ==
    [][(Step("player_system") /\ ~buttons.just_pressed /\ time_delta > 0) =>
         /\ player'.y = player.y + player.velocity * time_delta * 10
         /\ player'.velocity = player.velocity - (GRAVITY * 2 * time_delta) \div 10
         /\ player'.velocity < player.velocity
         /\ (player.velocity = BUMP /\ time_delta = 1) =>
               (player'.velocity = 495 /\ player'.y - player.y = 5850)]_vars

\* The first Playing tick, with dt = 0.1 and no flap, from velocity BUMP and y 0.
C6_Witness ==
    /\ "player_system" \in ran
    /\ ~obs.flapped
    /\ frames = 1
    /\ time_delta = 1
    /\ player.velocity = 495
    /\ player.y = 5850

\* C7: a run of rock_system queues the despawn of exactly the rocks whose x
\* is below ROCK_MIN_X; when the commands of the Playing tick are applied
\* those rocks are gone; and a rock that is still live then had x >=
\* ROCK_MIN_X when the tick began.
C7_OffScreenRocksGo ==
    [][/\ Step("rock_system") =>
            commands'.despawn =
               commands.despawn \cup {r.id : r \in {q \in Range(rocks) : q.x < ROCK_MIN_X}}
       /\ (pc = "systems" /\ pc' = "driver" /\ todo = PlayingSystems) =>
            \A r \in Range(rocks) :
               /\ r.id \in commands.despawn => r.id \notin {q.id : q \in Range(rocks')}
               /\ r.id \in {q.id : q \in Range(rocks')} =>
                     r.x + (time_delta * GAME_SPEED * r.velocity) \div 10 >= ROCK_MIN_X]_vars

\* After the second Playing tick the rock of the first spawn is gone.
C7_Witness ==
    /\ pc = "driver"
    /\ frames = 2
    /\ state.current = "Playing"
    /\ state.transition.kind = "None"
    /\ state.scheduled = "None"
    /\ next_entity > 1
    /\ 1 \notin RockIds

\* C8: the only step that lowers Score is the run of reset_game in the pass
\* that exits GameOver, and it leaves Score at 0.
C8_ScoreMonotonic ==
    [][score' < score =>
         /\ Step("reset_game")
         /\ state.transition.kind = "ExitingFull"
         /\ state.transition.from = "GameOver"
         /\ score' = 0]_vars

\* reset_game ran on a game in which a rock had counted.
C8_Witness ==
    /\ "reset_game" \in ran
    /\ score = 0
    /\ \E r \in Range(rocks) : r.has_scored

\* C9: in a frame whose click wait_for_click used for a transition, a run of
\* player_system sees no press and applies gravity to the velocity it found.
C9_ClickConsumed ==
    [][(Step("player_system") /\ obs.consumed) =>
         /\ ~buttons.just_pressed
         /\ ~obs'.flapped
         /\ player'.velocity = player.velocity - (GRAVITY * 2 * time_delta) \div 10]_vars

\* The Playing update of the frame whose click started the game.
C9_Witness ==
    /\ obs.click
    /\ obs.consumed
    /\ state.current = "Playing"
    /\ "player_system" \in ran
    /\ ~obs.flapped

\* C10: when the spawn timer fires, rock_spawn_system queues either two
\* rocks, one with its upper edge on the top of the screen and one with its
\* lower edge on the bottom, both with 0.7 times a drawn scale, or one rock at
\* one of the two edges with a drawn scale; every new rock has velocity 250
\* and has_scored false; and the timer starts again from 0 with a duration in
\* [0.4, 1.5).
C10_SpawnOutcome ==
    [][(Step("rock_spawn_system") /\ Timer_tick(rock_timer, time_delta).finished) =>
         LET old == Len(commands.spawn)
             n == Len(commands'.spawn) - old
             new == [i \in 1..n |-> commands'.spawn[old + i]]
             half(r) == ((Y(ROCK_HEIGHT) * r.scale) \div 100) \div 2
             top(r) == r.y + half(r) = Y(HEIGHT) \div 2
             bottom(r) == r.y - half(r) = -(Y(HEIGHT) \div 2)
         IN /\ n \in {1, 2}
            /\ n = 2 =>
                 /\ new[1].scale \in {(s * 7) \div 10 : s \in ScaleSet}
                 /\ new[2].scale = new[1].scale
                 /\ (top(new[1]) /\ bottom(new[2])) \/ (bottom(new[1]) /\ top(new[2]))
            /\ n = 1 =>
                 /\ new[1].scale \in ScaleSet
                 /\ top(new[1]) \/ bottom(new[1])
            /\ \A i \in 1..n : new[i].velocity = 250 /\ ~new[i].has_scored
            /\ rock_timer'.elapsed = 0
            /\ ~rock_timer'.finished
            /\ rock_timer'.duration >= 4 /\ rock_timer'.duration < 15]_vars

\* A 'both' spawn with drawn scale 1.0 is queued, and the timer runs again.
C10_Witness ==
    /\ "rock_spawn_system" \in ran
    /\ Len(commands.spawn) = 2
    /\ commands.spawn[1].scale = 70
    /\ commands.spawn[2].scale = 70
    /\ rock_timer.elapsed = 0
    /\ ~rock_timer.finished

\* The lowest and the highest point of a rock's collision polygon, in world y.
LowerTip(r) == r.y + r.polygon[CHOOSE i \in DOMAIN r.polygon :
                                 \A j \in DOMAIN r.polygon : r.polygon[i][2] <= r.polygon[j][2]][2]
UpperTip(r) == r.y + r.polygon[CHOOSE i \in DOMAIN r.polygon :
                                 \A j \in DOMAIN r.polygon : r.polygon[i][2] >= r.polygon[j][2]][2]

\* The free space between the two rocks of a queued pair: from the upper tip
\* of the rock on the bottom edge to the lower tip of the rock on the top edge.
PairGap(spawn) ==
    LET top == IF spawn[1].y > spawn[2].y THEN spawn[1] ELSE spawn[2]
        bottom == IF spawn[1].y > spawn[2].y THEN spawn[2] ELSE spawn[1]
    IN LowerTip(top) - UpperTip(bottom)

\* The gap of the pair that the drawn scale 1.0 gives (scale 0.7):
\* 480 - 2 * 239 * 0.7 = 145.4 pixels.
GapAtUnitScale == Y(HEIGHT) - 2 * ((Y(ROCK_HEIGHT) * 70) \div 100)

\* C11: every pair the spawner queues leaves the same gap between the lower
\* tip of its top rock and the upper tip of its bottom rock, whatever scale
\* was drawn. The drawn scale 1.0 is among the scales, so the one gap all
\* pairs would share is the gap of that pair.
C11_FixedGap ==
    Len(commands.spawn) = 2 => PairGap(commands.spawn) = GapAtUnitScale

\* A pair is queued whose gap follows the scale: HEIGHT - 2 * ROCK_HEIGHT * s
\* for the pair's scale s, here another gap than the one at drawn scale 1.0.
C11_Witness ==
    /\ Len(commands.spawn) = 2
    /\ PairGap(commands.spawn) =
          Y(HEIGHT) - 2 * ((Y(ROCK_HEIGHT) * commands.spawn[1].scale) \div 100)
    /\ PairGap(commands.spawn) # GapAtUnitScale

\* C12: a run of rock_spawn_system in a tick that does not bring the timer to
\* its duration only advances the elapsed time: it queues no rock, creates no
\* entity and keeps the duration; and any run queues at most two rocks, so
\* at most two rocks are queued when the commands of a tick are applied.
C12_SpawnerIdleUntilElapsed ==
    [][/\ (Step("rock_spawn_system") /\ rock_timer.elapsed + time_delta < rock_timer.duration) =>
            /\ commands' = commands
            /\ next_entity' = next_entity
            /\ rocks' = rocks
            /\ rock_timer'.duration = rock_timer.duration
            /\ rock_timer'.elapsed = rock_timer.elapsed + time_delta
            /\ ~rock_timer'.finished
       /\ Step("rock_spawn_system") =>
            /\ Len(commands'.spawn) - Len(commands.spawn) <= 2
            /\ next_entity' - next_entity = Len(commands'.spawn) - Len(commands.spawn)
       /\ (pc = "systems" /\ pc' = "driver") =>
            /\ Len(commands.spawn) <= 2
            /\ Len(rocks') <= Len(rocks) + 2]_vars

\* The spawner ran in a tick of 0.1 s with 1.4 s to wait: nothing is queued.
C12_Witness ==
    /\ "rock_spawn_system" \in ran
    /\ frames = 2
    /\ time_delta = 1
    /\ rock_timer.elapsed = 1
    /\ rock_timer.duration = 14
    /\ commands.spawn = <<>>

\* C13: in every Playing tick collision_system runs after player_system, so
\* that it reads the player's position and rotation as integrated in that
\* tick.
C13_CollisionAfterIntegration ==
    ("collision_system" \in ran /\ "player_system" \in todo) => "player_system" \in ran

\* collision_system has run on the position of the tick before, which
\* player_system then moves.
C13_Witness ==
    /\ "collision_system" \in ran
    /\ "player_system" \in todo \ ran
    /\ time_delta > 0
    /\ integrate_y(player.y, player.velocity, time_delta) # player.y

\* C14: a rock whose x is below ROCK_MIN_X when rock_system visits it is only
\* destroyed: the run does not newly mark it as scored, and the run raises
\* Score only if a rock at or above ROCK_MIN_X passed the player.
C14_DestroyedRockNotScored ==
    [][Step("rock_system") =>
         /\ \A i \in DOMAIN rocks :
               rocks[i].x < ROCK_MIN_X => rocks'[i].has_scored = rocks[i].has_scored
         /\ score' > score =>
               \E i \in DOMAIN rocks :
                  /\ rocks[i].x >= ROCK_MIN_X
                  /\ ~rocks[i].has_scored
                  /\ rocks[i].x < player.x]_vars

\* rock_system has queued the despawn of a rock below ROCK_MIN_X and, in the
\* same run, marked it as scored and counted it.
C14_Witness ==
    /\ "rock_system" \in ran
    /\ score = 1
    /\ \E r \in Range(rocks) :
          /\ r.x < ROCK_MIN_X
          /\ r.id \in commands.despawn
          /\ r.has_scored
    /\ \A r \in Range(rocks) : r.x < ROCK_MIN_X

C16_GatedByState ==
    [][(/\ state.current \in {"Start", "GameOver"}
        /\ ~(/\ state.current = "GameOver"
              /\ state.transition.kind = "ExitingFull"
              /\ obs.click))
       => UNCHANGED <<player, rocks, backgrounds, score, rock_timer>>]_vars

\* The update of GameOver ran in a frame without a click: the rock that was
\* hit is still where it was and the player where it fell.
C16_Witness ==
    /\ state.current = "GameOver"
    /\ state.transition.kind = "None"
    /\ "wait_for_click" \in ran
    /\ ~obs.click
    /\ obs.intersecting
    /\ rocks # <<>>
    /\ player.y # 0

\* C17: once player_system or reset_game has run, the stored rotation is the
\* orientation of the stored velocity.
C17_RotationOfStoredVelocity ==
    ("player_system" \in ran \/ "reset_game" \in ran) =>
        player.rotation = orientation(player.velocity)

\* After the first Playing tick of 0.1 s the rotation is the one of BUMP
\* (PI / 6), the velocity the tick started from, while the stored velocity is
\* 247.5.
C17_Witness ==
    /\ "player_system" \in ran
    /\ frames = 1
    /\ time_delta = 1
    /\ player.velocity = integrate_velocity(BUMP, 1)
    /\ player.rotation = AngleDen \div 6
    /\ player.rotation # orientation(player.velocity)

\* C18: once wait_for_click has used the click of a frame for a transition,
\* a later run of wait_for_click in that frame (the Start update that follows
\* GameOver -> Start) sees no press and requests nothing; and while Start is
\* being entered from GameOver the game stays in Start with nothing
\* scheduled. So no single click leads from GameOver to Playing.
C18_OneClickOneTransition ==
    [][/\ (Step("wait_for_click") /\ obs.consumed) =>
            /\ ~buttons.just_pressed
            /\ state' = state
       /\ (state.transition.from = "GameOver" /\ state.current = "Start") =>
            (state'.current = "Start" /\ state'.scheduled = "None")]_vars

\* The click of the frame led from GameOver to Start, the Start update of the
\* same frame ran, and nothing is scheduled.
C18_Witness ==
    /\ state.current = "Start"
    /\ state.transition.kind = "None"
    /\ state.scheduled = "None"
    /\ "wait_for_click" \in ran
    /\ obs.click
    /\ obs.consumed
    /\ obs.intersecting

\* C19: a run of rock_system raises Score by at most 1, and only for an
\* unscored rock behind the player; it raises nothing when Score has changed
\* since its last run; it marks every rock behind the player as scored, and
\* no other; and no step takes the scored mark off a live rock.
C19_AtMostOnePointPerTick ==
    [][/\ Step("rock_system") =>
            /\ score' \in {score, score + 1}
            /\ score_changed => score' = score
            /\ score' = score + 1 =>
                  \E i \in DOMAIN rocks : ~rocks[i].has_scored /\ rocks[i].x < player.x
            /\ \A i \in DOMAIN rocks :
                  /\ rocks[i].x < player.x => rocks'[i].has_scored
                  /\ rocks'[i].has_scored => (rocks[i].has_scored \/ rocks[i].x < player.x)
       /\ \A r \in Range(rocks), q \in Range(rocks') :
            (r.id = q.id /\ r.has_scored) => q.has_scored]_vars

\* rock_system ran with two unscored rocks behind the player: both are marked
\* and Score is 1.
C19_Witness ==
    /\ "rock_system" \in ran
    /\ ~score_changed
    /\ score = 1
    /\ Len(rocks) = 2
    /\ \A r \in Range(rocks) : r.x < player.x /\ r.has_scored

C21_VelocityAtMostBump ==
    /\ [](/\ player.velocity <= BUMP
          /\ \/ (player.rotation >= 0 /\ player.rotation <= AngleDen \div 6)
             \/ (player.rotation >= (AngleDen * 3) \div 2 /\ player.rotation < AngleDen * 2))
    /\ [][/\ ((state'.scheduled = "GameOver" /\ state.scheduled # "GameOver") =>
                (Step("collision_system") /\ obs'.intersecting))
           /\ (Step("player_system") => state' = state)]_vars

\* Two ticks of 4.0 s without a flap: the player is falling, far off the
\* screen, and the game goes on.
C21_Witness ==
    /\ state.current = "Playing"
    /\ state.scheduled = "None"
    /\ "player_system" \in ran
    /\ "collision_system" \in ran
    /\ frames = 2
    /\ player.velocity < 0
    /\ player.y > Y(HEIGHT) \div 2
    /\ player.rotation >= (AngleDen * 3) \div 2

====
